---- MODULE Spec2Model ----
(***************************************************************************)
(* suffixsort: inverse lexicographic (suffix) sort of text lines.          *)
(*                                                                         *)
(* A string is a sequence of Unicode scalar values (code points).  Byte    *)
(* offsets are those of the UTF-8 encoding, so that `char_indices`,        *)
(* `len_utf8` and byte slicing `line[s..e]` are modelled as the code uses  *)
(* them.  Option<usize> is modelled as <<>> (None) or <<n>> (Some(n)).     *)
(***************************************************************************)
EXTENDS Integers, Sequences, FiniteSets, TLC

VARIABLES cfg, lines, pc, processed, padding_info, output, a, b, ordering,
          slots, partials, verdicts, inlined

vars == <<cfg, lines, pc, processed, padding_info, output, a, b, ordering,
          slots, partials, verdicts, inlined>>

(***************************************************************************)
(* Bounds of the model.                                                    *)
(***************************************************************************)
MaxKeyLen == 3
MaxLen == 3
MaxLines == 2
MaxOrderKeyLen == 2

(***************************************************************************)
(* Characters.                                                             *)
(***************************************************************************)
\* the characters input lines are drawn from:
\*   'A' (65), 'a' (97), '-' (45), ' ' (32), U+0301 COMBINING ACUTE (769)
Alphabet == {65, 97, 45, 32, 769}

\* the characters comparator keys are drawn from: 'a', 'b', U+00E1 (a acute)
KeyAlphabet == {97, 98, 225}

HYPHEN == 45

\* char::is_alphabetic on the code points of the model (Latin letters)
is_alphabetic(c) ==
    \/ c \in 65..90
    \/ c \in 97..122
    \/ c \in 192..214
    \/ c \in 216..246
    \/ c \in 248..255

\* char::is_whitespace (White_Space property)
is_whitespace(c) ==
    \/ c \in 9..13
    \/ c \in {32, 133, 160, 5760, 8232, 8233, 8239, 8287, 12288}
    \/ c \in 8192..8202

\* char::len_utf8
len_utf8(c) ==
    IF c < 128 THEN 1
    ELSE IF c < 2048 THEN 2
    ELSE IF c < 65536 THEN 3
    ELSE 4

None == <<>>
Some(n) == <<n>>

\* str::len: the byte length of a string
RECURSIVE byte_len(_)
byte_len(s) ==
    IF s = <<>> THEN 0
    ELSE len_utf8(Head(s)) + byte_len(Tail(s))

\* the byte offset char_indices reports for the k-th character (k from 1)
byte_idx(s, k) == byte_len(SubSeq(s, 1, k - 1))

\* a byte offset a slice may start or end at
is_char_boundary(s, o) == \E k \in 1..(Len(s) + 1) : byte_idx(s, k) = o

\* &line[s..e] succeeds (it panics otherwise)
slice_ok(s, lo, hi) ==
    /\ lo <= hi
    /\ is_char_boundary(s, lo)
    /\ is_char_boundary(s, hi)

\* &line[s..e]: the characters whose bytes lie in [lo, hi)
RECURSIVE byte_slice_from(_, _, _, _)
byte_slice_from(s, k, lo, hi) ==
    IF k > Len(s) THEN <<>>
    ELSE IF byte_idx(s, k) >= lo /\ byte_idx(s, k) < hi
         THEN <<s[k]>> \o byte_slice_from(s, k + 1, lo, hi)
         ELSE byte_slice_from(s, k + 1, lo, hi)

byte_slice(s, lo, hi) == byte_slice_from(s, 1, lo, hi)

(***************************************************************************)
(* Configuration.                                                          *)
(***************************************************************************)
SortConfig ==
    [ignore_case : BOOLEAN, use_entire_line : BOOLEAN,
     dictionary_order : BOOLEAN, reverse : BOOLEAN, stable : BOOLEAN,
     right_align : BOOLEAN, exclude_no_word : BOOLEAN, word_only : BOOLEAN,
     normalize : BOOLEAN]

DefaultConfig ==
    [ignore_case |-> FALSE, use_entire_line |-> FALSE,
     dictionary_order |-> FALSE, reverse |-> FALSE, stable |-> FALSE,
     right_align |-> FALSE, exclude_no_word |-> FALSE, word_only |-> FALSE,
     normalize |-> FALSE]

(***************************************************************************)
(* Comparator.                                                             *)
(***************************************************************************)
\* char::cmp / usize::cmp
cmp(x, y) == IF x < y THEN "Less" ELSE IF x > y THEN "Greater" ELSE "Equal"

\* Ordering::reverse
ordering_reverse(o) ==
    IF o = "Less" THEN "Greater" ELSE IF o = "Greater" THEN "Less" ELSE "Equal"

\* the loop of the comparator closure; i characters of each key have been
\* taken from its end by a.chars().rev() and b.chars().rev()
RECURSIVE compare_loop(_, _, _)
compare_loop(x, y, i) ==
    IF i < Len(x) /\ i < Len(y)
    THEN IF cmp(x[Len(x) - i], y[Len(y) - i]) # "Equal"
         THEN cmp(x[Len(x) - i], y[Len(y) - i])
         ELSE compare_loop(x, y, i + 1)
    ELSE IF i < Len(x) THEN "Greater"
    ELSE IF i < Len(y) THEN "Less"
    ELSE "Equal"

\* mutant: the keys are walked from their first character
RECURSIVE compare_loop_forward(_, _, _)
compare_loop_forward(x, y, i) ==
    IF i < Len(x) /\ i < Len(y)
    THEN IF cmp(x[i + 1], y[i + 1]) # "Equal"
         THEN cmp(x[i + 1], y[i + 1])
         ELSE compare_loop_forward(x, y, i + 1)
    ELSE IF i < Len(x) THEN "Greater"
    ELSE IF i < Len(y) THEN "Less"
    ELSE "Equal"

compare_keys_forward(x, y) == compare_loop_forward(x, y, 0)

\* mutant: a key that runs out first ends the loop with Equal
RECURSIVE compare_loop_ignoring_length(_, _, _)
compare_loop_ignoring_length(x, y, i) ==
    IF i < Len(x) /\ i < Len(y)
    THEN IF cmp(x[Len(x) - i], y[Len(y) - i]) # "Equal"
         THEN cmp(x[Len(x) - i], y[Len(y) - i])
         ELSE compare_loop_ignoring_length(x, y, i + 1)
    ELSE "Equal"

compare_keys_ignoring_length(x, y) == compare_loop_ignoring_length(x, y, 0)

compare_keys(x, y) == compare_loop(x, y, 0)

\* mutant: the reverse flag is not applied
get_comparer_unreversed(c, x, y) == compare_keys(x, y)

\* the closure returned by get_comparer, applied to (x, y)
get_comparer(c, x, y) ==
    IF c.reverse THEN ordering_reverse(compare_keys(x, y))
    ELSE compare_keys(x, y)

(***************************************************************************)
(* Key preparation.                                                        *)
(***************************************************************************)
\* the primary composite of a starter and a combining mark, 0 when none:
\* 'A' + U+0301 = U+00C1, 'a' + U+0301 = U+00E1
compose(starter, mark) ==
    IF mark = 769 /\ starter \in {65, 97} THEN starter + 128 ELSE 0

\* key.nfc().collect(): canonical composition, left to right
RECURSIVE nfc_from(_, _, _)
nfc_from(s, k, out) ==
    IF k > Len(s) THEN out
    ELSE IF out # <<>> /\ compose(out[Len(out)], s[k]) # 0
         THEN nfc_from(s, k + 1,
                  SubSeq(out, 1, Len(out) - 1) \o <<compose(out[Len(out)], s[k])>>)
         ELSE nfc_from(s, k + 1, Append(out, s[k]))

nfc(s) == nfc_from(s, 1, <<>>)

\* char::to_lowercase on the code points of the model
char_to_lowercase(c) ==
    IF c \in 65..90 \/ c \in 192..214 \/ c \in 216..222 THEN c + 32 ELSE c

\* str::to_lowercase
to_lowercase(s) == [k \in 1..Len(s) |-> char_to_lowercase(s[k])]

prepare_key(c, key) ==
    IF c.ignore_case
    THEN to_lowercase(IF c.normalize THEN nfc(key) ELSE key)
    ELSE IF c.normalize THEN nfc(key) ELSE key

(***************************************************************************)
(* Key extraction.                                                         *)
(***************************************************************************)
\* line.char_indices().find(|(_, c)| c.is_alphabetic()): the position
\* (from 1) of the first alphabetic character, 0 when there is none
RECURSIVE find_alphabetic(_, _)
find_alphabetic(line, k) ==
    IF k > Len(line) THEN 0
    ELSE IF is_alphabetic(line[k]) THEN k
    ELSE find_alphabetic(line, k + 1)

\* the for loop over line.char_indices().skip(start), at the k-th character
\* of the line; the result is <<word_end, visual_length>>
RECURSIVE dict_word_loop(_, _, _, _, _)
dict_word_loop(line, k, word_end, visual_length, in_word) ==
    IF k > Len(line) THEN <<word_end, visual_length>>
    ELSE IF is_alphabetic(line[k])
         THEN dict_word_loop(line, k + 1,
                  byte_idx(line, k) + len_utf8(line[k]), visual_length + 1, TRUE)
    ELSE IF line[k] = HYPHEN /\ in_word
         THEN dict_word_loop(line, k + 1,
                  byte_idx(line, k) + len_utf8(line[k]), visual_length + 1, in_word)
    ELSE IF in_word THEN <<word_end, visual_length>>
    ELSE dict_word_loop(line, k + 1, word_end, visual_length, in_word)

\* mutant: word_end starts at 0 instead of start
extract_dictionary_end_from_zero(c, line) ==
    LET first == find_alphabetic(line, 1)
    IN  IF first = 0
        THEN [key |-> <<>>, visual_start |-> None, word_length |-> None,
              ok |-> TRUE]
        ELSE LET start == byte_idx(line, first)
                 r     == dict_word_loop(line, start + 1, 0, 0, FALSE)
             IN  [key |-> prepare_key(c, byte_slice(line, start, r[1])),
                  visual_start |-> Some(start),
                  word_length |-> Some(r[2]),
                  ok |-> slice_ok(line, start, r[1])]

\* the dictionary_order branch: [key, visual_start, word_length, ok];
\* skip(start) skips `start` characters, where start is a byte offset
extract_dictionary(c, line) ==
    LET first == find_alphabetic(line, 1)
    IN  IF first = 0
        THEN [key |-> <<>>, visual_start |-> None, word_length |-> None,
              ok |-> TRUE]
        ELSE LET start == byte_idx(line, first)
                 r     == dict_word_loop(line, start + 1, start, 0, FALSE)
             IN  [key |-> prepare_key(c, byte_slice(line, start, r[1])),
                  visual_start |-> Some(start),
                  word_length |-> Some(r[2]),
                  ok |-> slice_ok(line, start, r[1])]

\* the for loop of the default branch, at the k-th character of the line;
\* the result is <<start, end, in_word>>
RECURSIVE first_word_loop(_, _, _, _, _)
first_word_loop(line, k, start, end, in_word) ==
    IF k > Len(line) THEN <<start, end, in_word>>
    ELSE IF is_whitespace(line[k])
         THEN IF in_word THEN <<start, byte_idx(line, k), in_word>>
              ELSE first_word_loop(line, k + 1, start, end, in_word)
    ELSE IF ~in_word
         THEN first_word_loop(line, k + 1, byte_idx(line, k), end, TRUE)
    ELSE first_word_loop(line, k + 1, start, end, in_word)

\* mutant: the word always runs to the end of the line
extract_first_word_to_line_end(c, line) ==
    LET r == first_word_loop(line, 1, 0, 0, FALSE)
    IN  [key |-> prepare_key(c, IF r[3] THEN byte_slice(line, r[1], byte_len(line))
                                ELSE <<>>),
         visual_start |-> None, word_length |-> None,
         ok |-> (r[3] => slice_ok(line, r[1], byte_len(line)))]

\* the default (first whitespace-delimited word) branch
extract_first_word(c, line) ==
    LET r == first_word_loop(line, 1, 0, 0, FALSE)
        hi == IF r[2] = 0 THEN byte_len(line) ELSE r[2]
    IN  [key |-> prepare_key(c, IF r[3] THEN byte_slice(line, r[1], hi)
                                ELSE <<>>),
         visual_start |-> None, word_length |-> None,
         ok |-> (r[3] => slice_ok(line, r[1], hi))]

\* the (key, visual_start, word_length) tuple of process_lines_standard
extract_key(c, line) ==
    IF c.dictionary_order THEN extract_dictionary(c, line)
    ELSE extract_first_word(c, line)

ProcessedLine(line, key, index, visual_start, word_length) ==
    [original |-> line, key |-> key, index |-> index,
     visual_start |-> visual_start, word_length |-> word_length]

\* the filter_map closure of process_lines_standard: <<>> for a dropped
\* line, <<record>> for a kept one; index counts from 0
standard_closure(c, index, line) ==
    LET e == extract_key(c, line)
    IN  IF c.exclude_no_word /\ e.key = <<>> THEN <<>>
        ELSE <<ProcessedLine(line, e.key, index, e.visual_start, e.word_length)>>

\* the filter_map closure of process_lines_entire_line
entire_line_closure(c, index, line) ==
    IF c.exclude_no_word /\ line = <<>> THEN <<>>
    ELSE <<ProcessedLine(line, prepare_key(c, line), index, None, None)>>

\* par_iter().enumerate().filter_map(..).collect(): the kept records of the
\* lines from position k on, in input order
RECURSIVE process_lines_standard_from(_, _, _)
process_lines_standard_from(c, ls, k) ==
    IF k > Len(ls) THEN <<>>
    ELSE standard_closure(c, k - 1, ls[k])
             \o process_lines_standard_from(c, ls, k + 1)

process_lines_standard(c, ls) == process_lines_standard_from(c, ls, 1)

RECURSIVE process_lines_entire_line_from(_, _, _)
process_lines_entire_line_from(c, ls, k) ==
    IF k > Len(ls) THEN <<>>
    ELSE entire_line_closure(c, k - 1, ls[k])
             \o process_lines_entire_line_from(c, ls, k + 1)

process_lines_entire_line(c, ls) == process_lines_entire_line_from(c, ls, 1)

\* every substring taken while extracting the keys is a valid slice
extraction_ok(c, ls) ==
    c.use_entire_line \/ \A k \in 1..Len(ls) : extract_key(c, ls[k]).ok

\* the byte offsets <<start, end>> of the substring taken from a line as
\* its key, None when no substring is taken
key_slice(c, line) ==
    IF c.dictionary_order
    THEN IF find_alphabetic(line, 1) = 0 THEN None
         ELSE LET start == byte_idx(line, find_alphabetic(line, 1))
              IN  <<start, dict_word_loop(line, start + 1, start, 0, FALSE)[1]>>
    ELSE LET r == first_word_loop(line, 1, 0, 0, FALSE)
         IN  IF r[3] THEN <<r[1], IF r[2] = 0 THEN byte_len(line) ELSE r[2]>>
             ELSE None

(***************************************************************************)
(* Padding.                                                                *)
(***************************************************************************)
\* Iterator::max as a fold: None for an empty iterator
RECURSIVE iter_max(_, _, _)
iter_max(s, k, acc) ==
    IF k > Len(s) THEN acc
    ELSE IF acc = None \/ s[k] >= acc[1] THEN iter_max(s, k + 1, Some(s[k]))
    ELSE iter_max(s, k + 1, acc)

\* Option::unwrap_or
unwrap_or(o, d) == IF o = None THEN d ELSE o[1]

\* filter_map(|p| p.visual_start.and_then(|s| p.word_length.map(|l| s + l)))
RECURSIVE end_positions(_, _)
end_positions(ps, k) ==
    IF k > Len(ps) THEN <<>>
    ELSE IF ps[k].visual_start # None /\ ps[k].word_length # None
         THEN <<ps[k].visual_start[1] + ps[k].word_length[1]>>
                  \o end_positions(ps, k + 1)
         ELSE end_positions(ps, k + 1)

\* map(|p| p.key.chars().count())
key_lengths(ps) == [k \in 1..Len(ps) |-> Len(ps[k].key)]

PaddingInfo(max_value, use_end_pos) ==
    [max_value |-> max_value, use_end_pos |-> use_end_pos]

\* mutant: word_only does not switch the padding to key lengths
compute_padding_info_ignoring_word_only(c, ps) ==
    IF c.dictionary_order /\ ~c.use_entire_line
    THEN PaddingInfo(unwrap_or(iter_max(end_positions(ps, 1), 1, None), 0), TRUE)
    ELSE PaddingInfo(unwrap_or(iter_max(key_lengths(ps), 1, None), 0), FALSE)

compute_padding_info(c, ps) ==
    IF c.dictionary_order /\ ~c.use_entire_line /\ ~c.word_only
    THEN PaddingInfo(unwrap_or(iter_max(end_positions(ps, 1), 1, None), 0), TRUE)
    ELSE PaddingInfo(unwrap_or(iter_max(key_lengths(ps), 1, None), 0), FALSE)

(***************************************************************************)
(* Sorting.                                                                *)
(***************************************************************************)
\* mutant: equal keys are left to the sort algorithm
comparator_without_tie_break(c, x, y) == get_comparer(c, x.key, y.key)

\* mutant: the reverse flag also reverses the tie-break
comparator_reversing_tie_break(c, x, y) ==
    IF compare_keys(x.key, y.key) = "Equal"
    THEN IF c.reverse THEN cmp(y.index, x.index) ELSE cmp(x.index, y.index)
    ELSE get_comparer(c, x.key, y.key)

\* the comparator closure of sort_processed_lines
comparator(c, x, y) ==
    IF get_comparer(c, x.key, y.key) = "Equal"
    THEN cmp(x.index, y.index)
    ELSE get_comparer(c, x.key, y.key)

\* par_sort_by on a short slice: insertion sort, each element moved left
\* past the elements it is Less than
RECURSIVE insert_tail(_, _, _)
insert_tail(c, sorted, x) ==
    IF sorted = <<>> THEN <<x>>
    ELSE IF comparator(c, x, sorted[Len(sorted)]) = "Less"
         THEN Append(insert_tail(c, SubSeq(sorted, 1, Len(sorted) - 1), x),
                     sorted[Len(sorted)])
         ELSE Append(sorted, x)

RECURSIVE insertion_sort(_, _, _)
insertion_sort(c, ps, k) ==
    IF k = 0 THEN <<>>
    ELSE insert_tail(c, insertion_sort(c, ps, k - 1), ps[k])

\* the rearrangements of a sequence
Rearrangements(ps) ==
    {[k \in 1..Len(ps) |-> ps[f[k]]] :
        f \in {g \in [1..Len(ps) -> 1..Len(ps)] :
                  \A i, j \in 1..Len(ps) : i # j => g[i] # g[j]}}

\* par_sort_unstable_by: some rearrangement in which no element is Greater
\* than its successor; elements that compare Equal come in any order
unstable_sort_outcomes(c, ps) ==
    {q \in Rearrangements(ps) :
        \A k \in 1..(Len(q) - 1) : comparator(c, q[k], q[k + 1]) # "Greater"}

\* the sequences sort_processed_lines may leave in `processed`
sort_processed_lines(c, ps) ==
    IF c.stable THEN {insertion_sort(c, ps, Len(ps))}
    ELSE unstable_sort_outcomes(c, ps)

(***************************************************************************)
(* The pipeline and the output writer.                                     *)
(***************************************************************************)
\* mutant: use_entire_line is not consulted
extract_lines_always_standard(c, ls) == process_lines_standard(c, ls)

\* the records process_lines extracts, before they are sorted
extract_lines(c, ls) ==
    IF c.use_entire_line THEN process_lines_entire_line(c, ls)
    ELSE process_lines_standard(c, ls)

\* " ".repeat(n)
repeat_space(n) == [k \in 1..n |-> 32]

\* usize::saturating_sub
saturating_sub(x, y) == IF x > y THEN x - y ELSE 0

\* the line write_output emits for p when word_only is off and padding is on
padded_line(info, p) ==
    IF info.use_end_pos
    THEN IF p.visual_start # None /\ p.word_length # None
         THEN repeat_space(saturating_sub(info.max_value,
                  p.visual_start[1] + p.word_length[1])) \o p.original
         ELSE p.original
    ELSE repeat_space(saturating_sub(info.max_value, Len(p.key))) \o p.original

\* the lines write_output writes to stdout
write_output(ps, info, word_only, right_align) ==
    IF word_only
    THEN IF right_align
         THEN [k \in 1..Len(ps) |->
                  repeat_space(saturating_sub(
                      unwrap_or(iter_max(key_lengths(ps), 1, None), 0),
                      Len(ps[k].key))) \o ps[k].key]
         ELSE [k \in 1..Len(ps) |-> ps[k].key]
    ELSE IF info # None
         THEN [k \in 1..Len(ps) |-> padded_line(info[1], ps[k])]
         ELSE [k \in 1..Len(ps) |-> ps[k].original]

(***************************************************************************)
(* Inputs.                                                                 *)
(***************************************************************************)
\* the strings of at most n characters of A
StrsUpTo(A, n) == UNION {[1..m -> A] : m \in 0..n}

\* the sequences of at most n elements of S
SeqsUpTo(S, n) == UNION {[1..m -> S] : m \in 0..n}

Str_cat == <<99, 97, 116>>
Str_at == <<97, 116>>

\* the keys the comparator is applied to
Keys == StrsUpTo(KeyAlphabet, MaxKeyLen) \cup {Str_cat, Str_at}

\* "zebra apple", "ant banana"
ExampleAlign ==
    << <<122, 101, 98, 114, 97, 32, 97, 112, 112, 108, 101>>,
       <<97, 110, 116, 32, 98, 97, 110, 97, 110, 97>> >>

\* "b 1", "a 1", "b 2"
ExampleStable == << <<98, 32, 49>>, <<97, 32, 49>>, <<98, 32, 50>> >>

\* "", "hello world", "   "
ExampleExclude ==
    << <<>>, <<104, 101, 108, 108, 111, 32, 119, 111, 114, 108, 100>>,
       <<32, 32, 32>> >>

\* U+20AC "a b", U+20AC "5 apple", "a" U+3000 "b"
ExampleLines ==
    { <<8364, 97, 32, 98>>, <<8364, 53, 32, 97, 112, 112, 108, 101>>,
      <<97, 12288, 98>> }

\* the lines multi-line inputs are made of:
\* "", " ", "a", "ba", "a 1", U+20AC "a", "1"
LinePool ==
    { <<>>, <<32>>, <<97>>, <<98, 97>>, <<97, 32, 49>>, <<8364, 97>>, <<49>> }

(***************************************************************************)
(* Specifications.                                                         *)
(***************************************************************************)
Idle ==
    /\ processed = <<>>
    /\ padding_info = None
    /\ output = <<>>
    /\ ordering = "Equal"
    /\ slots = <<>>
    /\ partials = <<>>
    /\ verdicts = <<>>
    /\ inlined = [done |-> FALSE, lines |-> <<>>]

\* two keys and a configuration handed to get_comparer
InitCompare ==
    /\ pc = "compare"
    /\ cfg \in {[DefaultConfig EXCEPT !.reverse = r] : r \in BOOLEAN}
    /\ a \in Keys
    /\ b \in Keys
    /\ lines = <<>>
    /\ Idle

\* an input of at most one line under every configuration
InitLine ==
    /\ pc = "start"
    /\ cfg \in SortConfig
    /\ lines \in {<<l>> : l \in StrsUpTo(Alphabet, MaxLen) \cup ExampleLines}
                    \cup {<<>>}
    /\ a = <<>>
    /\ b = <<>>
    /\ Idle

\* an input of several lines under every configuration
Init ==
    /\ pc = "start"
    /\ cfg \in SortConfig
    /\ lines \in SeqsUpTo(LinePool, MaxLines)
                    \cup {ExampleAlign, ExampleStable, ExampleExclude}
    /\ a = <<>>
    /\ b = <<>>
    /\ Idle

\* comparer(a, b)
Compare ==
    /\ pc = "compare"
    /\ ordering' = get_comparer(cfg, a, b)
    /\ pc' = "compared"
    /\ UNCHANGED <<cfg, lines, processed, padding_info, output, a, b>>
    /\ UNCHANGED <<slots, partials, verdicts, inlined>>

\* config.process_lines(lines): extract, compute the padding, sort
ProcessLines ==
    /\ pc = "start"
    /\ IF extraction_ok(cfg, lines)
       THEN /\ processed' \in sort_processed_lines(cfg, extract_lines(cfg, lines))
            /\ padding_info' =
                   IF cfg.right_align
                   THEN Some(compute_padding_info(cfg, extract_lines(cfg, lines)))
                   ELSE None
            /\ pc' = "processed"
       ELSE /\ pc' = "panicked"
            /\ UNCHANGED <<processed, padding_info>>
    /\ UNCHANGED <<cfg, lines, output, a, b, ordering>>
    /\ UNCHANGED <<slots, partials, verdicts, inlined>>

\* sort_processed_lines applied to the sequence process_lines returned
SortAgain ==
    /\ pc = "processed"
    /\ processed' \in sort_processed_lines(cfg, processed)
    /\ pc' = "resorted"
    /\ UNCHANGED <<cfg, lines, padding_info, output, a, b, ordering>>
    /\ UNCHANGED <<slots, partials, verdicts, inlined>>

\* write_output(processed, padding_info, args.word_only, args.right_align)
WriteOutput ==
    /\ pc = "processed"
    /\ output' = write_output(processed, padding_info, cfg.word_only,
                              cfg.right_align)
    /\ pc' = "written"
    /\ UNCHANGED <<cfg, lines, processed, padding_info, a, b, ordering>>
    /\ UNCHANGED <<slots, partials, verdicts, inlined>>

(***************************************************************************)
(* The data-parallel steps of process_lines: the filter_map closures run   *)
(* on the lines in any order, collect() puts the results in input order,   *)
(* and max() merges partial maxima in any order.                           *)
(***************************************************************************)
\* the closure process_lines runs on the line at position k (from 1)
line_closure(c, k, ls) ==
    IF c.use_entire_line THEN entire_line_closure(c, k - 1, ls[k])
    ELSE standard_closure(c, k - 1, ls[k])

\* collect(): the results of the closures from position k on, in input order
RECURSIVE collect_slots(_, _)
collect_slots(sl, k) ==
    IF k > Len(sl) THEN <<>>
    ELSE sl[k].res \o collect_slots(sl, k + 1)

\* the values max() is taken over
partial_leaves(c, ps) ==
    IF c.dictionary_order /\ ~c.use_entire_line /\ ~c.word_only
    THEN end_positions(ps, 1)
    ELSE key_lengths(ps)

\* mutant: merging two partial results keeps the left one
merge_partials_keep_left(x, y) == x

\* max() of two partial results
merge_partials(x, y) == IF x >= y THEN x ELSE y

\* the sequence s without its j-th element
Without(s, j) == SubSeq(s, 1, j - 1) \o SubSeq(s, j + 1, Len(s))

\* lines.par_iter().enumerate(): one task per line
ParStart ==
    /\ pc = "start"
    /\ IF extraction_ok(cfg, lines)
       THEN /\ slots' = [k \in 1..Len(lines) |-> [done |-> FALSE, res |-> <<>>]]
            /\ pc' = "par_extract"
       ELSE /\ pc' = "panicked"
            /\ UNCHANGED slots
    /\ UNCHANGED <<cfg, lines, processed, padding_info, output, a, b, ordering>>
    /\ UNCHANGED <<partials, verdicts, inlined>>

\* a worker runs the filter_map closure on some line not yet done
ParExtract ==
    /\ pc = "par_extract"
    /\ \E k \in 1..Len(lines) :
           /\ ~slots[k].done
           /\ slots' = [slots EXCEPT
                            ![k] = [done |-> TRUE, res |-> line_closure(cfg, k, lines)]]
    /\ UNCHANGED <<cfg, lines, pc, processed, padding_info, output, a, b, ordering>>
    /\ UNCHANGED <<partials, verdicts, inlined>>

\* collect(), then the leaves of the max() reduction when right_align is on
ParCollect ==
    /\ pc = "par_extract"
    /\ \A k \in 1..Len(lines) : slots[k].done
    /\ processed' = collect_slots(slots, 1)
    /\ IF cfg.right_align
       THEN /\ partials' = partial_leaves(cfg, collect_slots(slots, 1))
            /\ pc' = "par_reduce"
       ELSE /\ partials' = <<>>
            /\ pc' = "par_sort"
    /\ UNCHANGED <<cfg, lines, padding_info, output, a, b, ordering>>
    /\ UNCHANGED <<slots, verdicts, inlined>>

\* two partial results are merged into one
ParMerge ==
    /\ pc = "par_reduce"
    /\ \E i, j \in 1..Len(partials) :
           /\ i # j
           /\ partials' =
                  Without([partials EXCEPT
                              ![i] = merge_partials(partials[i], partials[j])], j)
    /\ UNCHANGED <<cfg, lines, pc, processed, padding_info, output, a, b, ordering>>
    /\ UNCHANGED <<slots, verdicts, inlined>>

\* the reduction is over: unwrap_or(0) and the PaddingInfo
ParReduced ==
    /\ pc = "par_reduce"
    /\ Len(partials) <= 1
    /\ padding_info' =
           Some(PaddingInfo(
               unwrap_or(IF partials = <<>> THEN None ELSE Some(partials[1]), 0),
               cfg.dictionary_order /\ ~cfg.use_entire_line /\ ~cfg.word_only))
    /\ pc' = "par_sort"
    /\ UNCHANGED <<cfg, lines, processed, output, a, b, ordering>>
    /\ UNCHANGED <<slots, partials, verdicts, inlined>>

\* self.sort_processed_lines(&mut processed)
ParSort ==
    /\ pc = "par_sort"
    /\ processed' \in sort_processed_lines(cfg, processed)
    /\ pc' = "processed"
    /\ UNCHANGED <<cfg, lines, padding_info, output, a, b, ordering>>
    /\ UNCHANGED <<slots, partials, verdicts, inlined>>

\* the lines the inputs of the workers are made of:
\* "", "a", "ba", U+20AC "a"
ParLinePool == { <<>>, <<97>>, <<98, 97>>, <<8364, 97>> }

\* an input of several lines for the workers
InitPar ==
    /\ pc = "start"
    /\ cfg \in SortConfig
    /\ lines \in SeqsUpTo(ParLinePool, MaxLines)
                    \cup {ExampleAlign, ExampleStable, ExampleExclude}
    /\ a = <<>>
    /\ b = <<>>
    /\ Idle

NextPar ==
    ParStart \/ ParExtract \/ ParCollect \/ ParMerge \/ ParReduced \/ ParSort

SpecPar == InitPar /\ [][NextPar]_vars

(***************************************************************************)
(* The comparator of sort_processed_lines applied to records.              *)
(***************************************************************************)
\* the characters the keys of compared records are drawn from: 'a', 'b'
OrderAlphabet == {97, 98}

\* three records of pairwise distinct index, as process_lines_entire_line
\* makes them
OrderRecords ==
    {[k \in 1..3 |-> ProcessedLine(keys[k], keys[k], idx[k], None, None)] :
        keys \in [1..3 -> StrsUpTo(OrderAlphabet, MaxOrderKeyLen)],
        idx \in {f \in [1..3 -> 0..2] : \A i, j \in 1..3 : i # j => f[i] # f[j]}}

InitOrder ==
    /\ pc = "order"
    /\ cfg \in {[DefaultConfig EXCEPT !.reverse = r] : r \in BOOLEAN}
    /\ processed \in OrderRecords
    /\ lines = <<>>
    /\ a = <<>>
    /\ b = <<>>
    /\ padding_info = None
    /\ output = <<>>
    /\ ordering = "Equal"
    /\ slots = <<>>
    /\ partials = <<>>
    /\ verdicts = <<>>
    /\ inlined = [done |-> FALSE, lines |-> <<>>]

\* comparator(x, y) and string_comparer(&x.key, &y.key) for every two of
\* the records
CompareRecords ==
    /\ pc = "order"
    /\ verdicts' =
           [rec |-> [i \in 1..Len(processed) |-> [j \in 1..Len(processed) |->
                        comparator(cfg, processed[i], processed[j])]],
            key |-> [i \in 1..Len(processed) |-> [j \in 1..Len(processed) |->
                        get_comparer(cfg, processed[i].key, processed[j].key)]]]
    /\ pc' = "ordered"
    /\ UNCHANGED <<cfg, lines, processed, padding_info, output, a, b, ordering>>
    /\ UNCHANGED <<slots, partials, inlined>>

NextOrder == CompareRecords

SpecOrder == InitOrder /\ [][NextOrder]_vars

(***************************************************************************)
(* The pipeline inlined in the entry point src/src/main.rs.  Its records   *)
(* are the tuples (line, key, index, visual_start, word_length), written   *)
(* here as ProcessedLine records.                                          *)
(***************************************************************************)
\* line[start..].char_indices().find(|(_, c)| !(c.is_alphabetic() || *c == '-'))
\*     .map(|(idx, _)| start + idx).unwrap_or_else(|| line.len()),
\* looking from the k-th character of the line on
RECURSIVE inlined_word_end(_, _)
inlined_word_end(line, k) ==
    IF k > Len(line) THEN byte_len(line)
    ELSE IF ~(is_alphabetic(line[k]) \/ line[k] = HYPHEN) THEN byte_idx(line, k)
    ELSE inlined_word_end(line, k + 1)

\* line[word_start..word_end] of a line with an alphabetic character
inlined_dictionary_word(line) ==
    byte_slice(line, byte_idx(line, find_alphabetic(line, 1)),
               inlined_word_end(line, find_alphabetic(line, 1)))

\* the standard word extraction
inlined_first_word(line) ==
    LET r == first_word_loop(line, 1, 0, 0, FALSE)
    IN  IF r[3] /\ r[2] = 0 THEN byte_slice(line, r[1], byte_len(line))
        ELSE IF r[3] THEN byte_slice(line, r[1], r[2])
        ELSE <<>>

\* the (key, visual_start, word_length) of a line
inlined_extract_key(c, line) ==
    IF c.right_align /\ c.dictionary_order /\ ~c.use_entire_line
    THEN IF find_alphabetic(line, 1) # 0
         THEN [key |-> inlined_dictionary_word(line),
               visual_start |-> Some(byte_idx(line, find_alphabetic(line, 1))),
               word_length |-> Some(Len(inlined_dictionary_word(line)))]
         ELSE [key |-> <<>>, visual_start |-> None, word_length |-> None]
    ELSE [key |-> IF c.use_entire_line THEN line
                  ELSE IF c.dictionary_order
                       THEN IF find_alphabetic(line, 1) = 0 THEN <<>>
                            ELSE inlined_dictionary_word(line)
                  ELSE inlined_first_word(line),
          visual_start |-> None, word_length |-> None]

\* the filter_map closures of the entry point
inlined_closure(c, index, line) ==
    LET e == inlined_extract_key(c, line)
    IN  IF c.exclude_no_word /\ e.key = <<>> THEN <<>>
        ELSE <<ProcessedLine(line, e.key, index, e.visual_start, e.word_length)>>

\* into_par_iter().enumerate().filter_map(..).collect()
RECURSIVE inlined_extract_from(_, _, _)
inlined_extract_from(c, ls, k) ==
    IF k > Len(ls) THEN <<>>
    ELSE inlined_closure(c, k - 1, ls[k]) \o inlined_extract_from(c, ls, k + 1)

\* the padding information of the entry point
inlined_padding_info(c, ps) ==
    IF c.right_align
    THEN IF c.dictionary_order /\ ~c.use_entire_line /\ ~c.word_only
         THEN Some(PaddingInfo(
                  unwrap_or(iter_max(end_positions(ps, 1), 1, None), 0), TRUE))
         ELSE Some(PaddingInfo(
                  unwrap_or(iter_max(key_lengths(ps), 1, None), 0), FALSE))
    ELSE None

\* chars().flat_map(fold): every character of the model lowercases to one
\* character, so folding the reversed key is reversing the folded key
inlined_fold(c, key) ==
    IF c.ignore_case THEN [k \in 1..Len(key) |-> char_to_lowercase(key[k])]
    ELSE key

\* the comparison closure of the entry point
inlined_comparator(c, x, y) ==
    LET word_cmp == compare_loop(inlined_fold(c, x.key), inlined_fold(c, y.key), 0)
        reversed == IF c.reverse THEN ordering_reverse(word_cmp) ELSE word_cmp
    IN  IF reversed = "Equal" THEN cmp(x.index, y.index) ELSE reversed

\* par_sort_by with the closure of the entry point
RECURSIVE inlined_insert_tail(_, _, _)
inlined_insert_tail(c, sorted, x) ==
    IF sorted = <<>> THEN <<x>>
    ELSE IF inlined_comparator(c, x, sorted[Len(sorted)]) = "Less"
         THEN Append(inlined_insert_tail(c, SubSeq(sorted, 1, Len(sorted) - 1), x),
                     sorted[Len(sorted)])
         ELSE Append(sorted, x)

RECURSIVE inlined_insertion_sort(_, _, _)
inlined_insertion_sort(c, ps, k) ==
    IF k = 0 THEN <<>>
    ELSE inlined_insert_tail(c, inlined_insertion_sort(c, ps, k - 1), ps[k])

\* the sequences the sort of the entry point may leave
inlined_sort(c, ps) ==
    IF c.stable THEN {inlined_insertion_sort(c, ps, Len(ps))}
    ELSE {q \in Rearrangements(ps) :
             \A k \in 1..(Len(q) - 1) :
                 inlined_comparator(c, q[k], q[k + 1]) # "Greater"}

\* the lines the entry point writes to stdout
inlined_write(c, ps, info) ==
    IF c.word_only
    THEN IF c.right_align
         THEN [k \in 1..Len(ps) |->
                  repeat_space(saturating_sub(
                      unwrap_or(iter_max(key_lengths(ps), 1, None), 0),
                      Len(ps[k].key))) \o ps[k].key]
         ELSE [k \in 1..Len(ps) |-> ps[k].key]
    ELSE IF info # None
         THEN [k \in 1..Len(ps) |->
                  IF info[1].use_end_pos
                  THEN IF ps[k].visual_start # None /\ ps[k].word_length # None
                       THEN repeat_space(saturating_sub(info[1].max_value,
                                ps[k].visual_start[1] + ps[k].word_length[1]))
                                \o ps[k].original
                       ELSE ps[k].original
                  ELSE repeat_space(saturating_sub(info[1].max_value,
                           Len(ps[k].key))) \o ps[k].original]
         ELSE [k \in 1..Len(ps) |-> ps[k].original]

\* the outputs a run of the entry point may write
inlined_main(c, ls) ==
    {inlined_write(c, q, inlined_padding_info(c, inlined_extract_from(c, ls, 1))) :
        q \in inlined_sort(c, inlined_extract_from(c, ls, 1))}

\* a run of the entry point of src/src/main.rs on the same lines and flags
InlinedMain ==
    /\ ~inlined.done
    /\ pc \in {"start", "processed", "written"}
    /\ inlined' \in {[done |-> TRUE, lines |-> o] : o \in inlined_main(cfg, lines)}
    /\ UNCHANGED <<cfg, lines, pc, processed, padding_info, output, a, b, ordering>>
    /\ UNCHANGED <<slots, partials, verdicts>>

\* "", " ", "A", "ba", "a 1", U+20AC "a", "1"
BothLinePool ==
    { <<>>, <<32>>, <<65>>, <<98, 97>>, <<97, 32, 49>>, <<8364, 97>>, <<49>> }

\* the same input for both programs; the entry point has no normalize flag
InitBoth ==
    /\ pc = "start"
    /\ cfg \in {c \in SortConfig : ~c.normalize}
    /\ lines \in SeqsUpTo(BothLinePool, MaxLines)
                    \cup {ExampleAlign, ExampleStable, ExampleExclude}
    /\ a = <<>>
    /\ b = <<>>
    /\ Idle

NextBoth == ProcessLines \/ WriteOutput \/ InlinedMain

SpecBoth == InitBoth /\ [][NextBoth]_vars

Next == ProcessLines \/ SortAgain \/ WriteOutput

NextCompare == Compare

Spec == Init /\ [][Next]_vars

SpecLine == InitLine /\ [][Next]_vars

SpecCompare == InitCompare /\ [][NextCompare]_vars

(***************************************************************************)
(* Properties.                                                             *)
(***************************************************************************)
Inverse(o) ==
    CASE o = "Less" -> "Greater" [] o = "Greater" -> "Less" [] OTHER -> "Equal"

\* the positions, counted from the end, at which both keys have a character
\* and the characters differ
MismatchesFromEnd(x, y) ==
    {i \in 1..(IF Len(x) < Len(y) THEN Len(x) ELSE Len(y)) :
        x[Len(x) + 1 - i] # y[Len(y) + 1 - i]}

SetMin(S) == CHOOSE m \in S : \A x \in S : m <= x
SetMax(S) == CHOOSE m \in S : \A x \in S : x <= m

\* the suffix order of two keys, stated without the comparator's loop
SuffixOrder(x, y) ==
    IF MismatchesFromEnd(x, y) # {}
    THEN LET d == SetMin(MismatchesFromEnd(x, y))
         IN  IF x[Len(x) + 1 - d] > y[Len(y) + 1 - d] THEN "Greater" ELSE "Less"
    ELSE IF Len(x) > Len(y) THEN "Greater"
    ELSE IF Len(x) < Len(y) THEN "Less"
    ELSE "Equal"

\* C1: with reverse off the comparator returns the suffix order of the two
\* keys: decided by the first differing character from the end, else the
\* longer key is Greater, else Equal; compare("cat", "at") = Greater
C1_SuffixOrder ==
    (pc = "compared" /\ ~cfg.reverse) =>
        /\ ordering = SuffixOrder(a, b)
        /\ (a = Str_cat /\ b = Str_at) => ordering = "Greater"

C1_Witness ==
    /\ pc = "compared"
    /\ ~cfg.reverse
    /\ a = Str_cat
    /\ b = Str_at
    /\ ordering = "Greater"

\* C2: the comparator with reverse on returns the inverse of what it returns
\* with reverse off (Equal stays Equal), and compare(a, a) = Equal under
\* every configuration
C2_ReverseInverts ==
    pc = "compared" =>
        /\ ordering =
               Inverse(get_comparer([cfg EXCEPT !.reverse = ~cfg.reverse], a, b))
        /\ a = b => ordering = "Equal"

C2_Witness ==
    /\ pc = "compared"
    /\ cfg.reverse
    /\ a = Str_cat
    /\ b = Str_at
    /\ ordering = "Less"

\* the order the configuration puts two keys in
KeyOrder(x, y) ==
    IF cfg.reverse THEN Inverse(SuffixOrder(x, y)) ELSE SuffixOrder(x, y)

Elements(s) == {s[k] : k \in 1..Len(s)}

\* C3: after sort_processed_lines the sequence is a permutation of the
\* extracted records with their fields unchanged; of two adjacent records
\* the first has the strictly smaller key, or the keys are Equal and its
\* index is smaller; records with equal keys are in input order
C3_SortedPermutation ==
    pc \in {"processed", "resorted"} =>
        /\ Len(processed) = Len(extract_lines(cfg, lines))
        /\ Elements(processed) = Elements(extract_lines(cfg, lines))
        /\ \A k \in 1..(Len(processed) - 1) :
               \/ KeyOrder(processed[k].key, processed[k + 1].key) = "Less"
               \/ /\ KeyOrder(processed[k].key, processed[k + 1].key) = "Equal"
                  /\ processed[k].index < processed[k + 1].index
        /\ \A i, j \in 1..Len(processed) :
               (i < j /\ processed[i].key = processed[j].key)
                   => processed[i].index < processed[j].index

\* "b 1", "a 1", "b 2" under reverse with the unstable sort: the two "b"
\* records first, in input order
C3_Witness ==
    /\ pc = "processed"
    /\ lines = ExampleStable
    /\ cfg.reverse
    /\ ~cfg.stable
    /\ ~cfg.use_entire_line
    /\ Len(processed) = 3
    /\ processed[1].index = 0
    /\ processed[2].index = 2
    /\ processed[3].index = 1

\* C4: the stable and the unstable sort give the same sequence, and sorting
\* the sorted sequence again leaves it as it is
C4_SortDetermined ==
    /\ [](pc = "processed" =>
            /\ sort_processed_lines([cfg EXCEPT !.stable = ~cfg.stable],
                                    extract_lines(cfg, lines)) = {processed}
            /\ sort_processed_lines([cfg EXCEPT !.stable = ~cfg.stable],
                                    processed) = {processed})
    /\ [][(pc = "processed" /\ pc' = "resorted") => processed' = processed]_vars

\* a sorted sequence with two records of the same key, sorted again
C4_Witness ==
    /\ pc = "resorted"
    /\ Len(processed) = 2
    /\ processed[1].key = processed[2].key
    /\ processed[1].key # <<>>

\* the configuration is in dictionary mode
DictionaryMode == cfg.dictionary_order /\ ~cfg.use_entire_line

HasAlphabetic(line) == \E k \in 1..Len(line) : is_alphabetic(line[k])

\* the position (from 1) of the first alphabetic character of a line
FirstAlphabetic(line) == SetMin({k \in 1..Len(line) : is_alphabetic(line[k])})

\* the position of the last character of the run of alphabetic characters
\* and hyphens that starts at the first alphabetic character
WordLast(line) ==
    SetMax({m \in FirstAlphabetic(line)..Len(line) :
               \A j \in FirstAlphabetic(line)..m :
                   is_alphabetic(line[j]) \/ line[j] = HYPHEN})

\* the word of a line in dictionary mode
DictionaryWord(line) == SubSeq(line, FirstAlphabetic(line), WordLast(line))

\* C5: in dictionary mode with normalize and ignore_case off, a line with no
\* alphabetic character has an empty key and no positions; otherwise the
\* key is the run of alphabetic characters and hyphens that starts at the
\* first alphabetic character, whatever precedes it
C5_DictionaryKey ==
    (pc = "processed" /\ DictionaryMode /\ ~cfg.normalize /\ ~cfg.ignore_case) =>
        \A k \in 1..Len(processed) :
            IF HasAlphabetic(processed[k].original)
            THEN processed[k].key = DictionaryWord(processed[k].original)
            ELSE /\ processed[k].key = <<>>
                 /\ processed[k].visual_start = None
                 /\ processed[k].word_length = None

\* C6: in dictionary mode, for a line with an alphabetic character,
\* visual_start is the number of characters before the first alphabetic
\* character and word_length the number of characters of the raw word
C6_DictionaryPositions ==
    (pc = "processed" /\ DictionaryMode) =>
        \A k \in 1..Len(processed) :
            HasAlphabetic(processed[k].original) =>
                /\ processed[k].visual_start =
                       Some(FirstAlphabetic(processed[k].original) - 1)
                /\ processed[k].word_length =
                       Some(Len(DictionaryWord(processed[k].original)))

\* C7, as claimed: the positions are both None or both Some, and Some only
\* when dictionary_order && right_align && !use_entire_line
C7_PositionsOnlyWhenAligning ==
    pc = "processed" =>
        \A k \in 1..Len(processed) :
            /\ (processed[k].visual_start = None) <=> (processed[k].word_length = None)
            /\ processed[k].visual_start # None =>
                   (cfg.dictionary_order /\ cfg.right_align /\ ~cfg.use_entire_line)

\* C7, amended: the positions are both None or both Some, and Some only when
\* dictionary_order && !use_entire_line, whether right_align is on or off
C7_PositionsOnlyInDictionaryMode ==
    pc = "processed" =>
        \A k \in 1..Len(processed) :
            /\ (processed[k].visual_start = None) <=> (processed[k].word_length = None)
            /\ processed[k].visual_start # None => DictionaryMode

\* a record with positions although right_align is off
C7_Witness ==
    /\ pc = "processed"
    /\ DictionaryMode
    /\ ~cfg.right_align
    /\ Len(processed) = 1
    /\ processed[1].visual_start # None
    /\ processed[1].word_length # None

\* a line without a word, by the mode of the configuration
NoWord(line) ==
    IF cfg.use_entire_line THEN line = <<>>
    ELSE IF cfg.dictionary_order THEN ~HasAlphabetic(line)
    ELSE \A k \in 1..Len(line) : is_whitespace(line[k])

\* C8: with exclude_no_word on exactly the lines without a word are dropped,
\* with it off every line is kept; each kept record carries its 0-based
\* input position as index, so indices are unique and dropped lines leave
\* gaps
C8_ExcludeNoWord ==
    pc = "processed" =>
        /\ {processed[k].index : k \in 1..Len(processed)} =
               {i \in 0..(Len(lines) - 1) :
                   ~(cfg.exclude_no_word /\ NoWord(lines[i + 1]))}
        /\ \A k \in 1..Len(processed) :
               processed[k].original = lines[processed[k].index + 1]
        /\ \A j, k \in 1..Len(processed) :
               j # k => processed[j].index # processed[k].index

\* the end positions of the records that have positions
EndPositions(ps) ==
    {ps[k].visual_start[1] + ps[k].word_length[1] :
        k \in {j \in 1..Len(ps) : ps[j].visual_start # None /\ ps[j].word_length # None}}

KeyLengths(ps) == {Len(ps[k].key) : k \in 1..Len(ps)}

MaxOrZero(S) == IF S = {} THEN 0 ELSE SetMax(S)

\* C9: process_lines returns a PaddingInfo exactly when right_align is on;
\* in dictionary mode without word_only it is the largest end position of
\* the records with positions, use_end_pos set; otherwise the largest key
\* length, use_end_pos clear; 0 when there is nothing to take the maximum
\* of; the sorted sequence gives the same value as the extracted one
C9_PaddingInfo ==
    pc = "processed" =>
        /\ (padding_info # None) <=> cfg.right_align
        /\ cfg.right_align =>
               /\ padding_info[1] =
                      IF DictionaryMode /\ ~cfg.word_only
                      THEN [max_value |-> MaxOrZero(EndPositions(processed)),
                            use_end_pos |-> TRUE]
                      ELSE [max_value |-> MaxOrZero(KeyLengths(processed)),
                            use_end_pos |-> FALSE]
               /\ padding_info[1] = compute_padding_info(cfg, processed)
               /\ EndPositions(processed) = EndPositions(extract_lines(cfg, lines))
               /\ KeyLengths(processed) = KeyLengths(extract_lines(cfg, lines))

\* "zebra apple", "ant banana" in dictionary order, right-aligned
C9_Witness ==
    /\ pc = "processed"
    /\ lines = ExampleAlign
    /\ cfg.right_align
    /\ DictionaryMode
    /\ ~cfg.word_only
    /\ padding_info = Some([max_value |-> 5, use_end_pos |-> TRUE])

\* C10: in dictionary-order right-aligned output a line with a word is
\* left-padded with spaces so that its word ends at column max_value, and a
\* line without a word is written as it is
C10_WordEndsAligned ==
    (pc = "written" /\ cfg.right_align /\ DictionaryMode /\ ~cfg.word_only) =>
        /\ Len(output) = Len(processed)
        /\ \A k \in 1..Len(processed) :
               IF HasAlphabetic(processed[k].original)
               THEN /\ Len(output[k]) >= Len(processed[k].original)
                    /\ output[k] =
                           repeat_space(Len(output[k]) - Len(processed[k].original))
                               \o processed[k].original
                    /\ (Len(output[k]) - Len(processed[k].original))
                           + WordLast(processed[k].original)
                       = padding_info[1].max_value
               ELSE output[k] = processed[k].original
        /\ lines = ExampleAlign =>
               /\ padding_info[1].max_value = 5
               /\ \E k \in 1..Len(output) :
                      output[k] = <<32, 32>> \o ExampleAlign[2]

\* the configuration is in default (first word) mode
DefaultMode == ~cfg.use_entire_line /\ ~cfg.dictionary_order

HasWord(line) == \E k \in 1..Len(line) : ~is_whitespace(line[k])

\* the position (from 1) of the first non-whitespace character of a line
FirstNonWhitespace(line) ==
    SetMin({k \in 1..Len(line) : ~is_whitespace(line[k])})

\* the position of the last character before the first whitespace character
\* that follows the first non-whitespace one, the end of the line if none
FirstWordLast(line) ==
    LET after == {k \in (FirstNonWhitespace(line) + 1)..Len(line) :
                     is_whitespace(line[k])}
    IN  IF after = {} THEN Len(line) ELSE SetMin(after) - 1

FirstWord(line) ==
    IF HasWord(line)
    THEN SubSeq(line, FirstNonWhitespace(line), FirstWordLast(line))
    ELSE <<>>

\* C11: in default mode with normalize and ignore_case off the key is the
\* substring from the first non-whitespace character up to the first
\* whitespace character after it or the end of the line, empty for a line
\* with no non-whitespace character; the positions are always None
C11_FirstWordKey ==
    (pc = "processed" /\ DefaultMode /\ ~cfg.normalize /\ ~cfg.ignore_case) =>
        \A k \in 1..Len(processed) :
            /\ processed[k].key = FirstWord(processed[k].original)
            /\ processed[k].visual_start = None
            /\ processed[k].word_length = None

\* "a" U+3000 "b": the word ends at a three-byte whitespace character
C11_Witness ==
    /\ pc = "processed"
    /\ DefaultMode
    /\ ~cfg.normalize
    /\ ~cfg.ignore_case
    /\ lines = << <<97, 12288, 98>> >>
    /\ Len(processed) = 1
    /\ processed[1].key = <<97>>

\* the byte offsets at which a character of the line starts, and its end
CharBoundaries(line) == {byte_len(SubSeq(line, 1, j)) : j \in 0..Len(line)}

\* C12: process_lines is total: it never fails, whatever the lines and the
\* configuration; every substring taken as a key has start <= end <= the
\* byte length of the line, both on character boundaries; an empty input
\* gives an empty output, with max_value 0 when right_align is on
C12_Total ==
    /\ pc # "panicked"
    /\ pc = "start" =>
           /\ sort_processed_lines(cfg, extract_lines(cfg, lines)) # {}
           /\ ~cfg.use_entire_line =>
                  \A k \in 1..Len(lines) :
                      key_slice(cfg, lines[k]) # None =>
                          /\ key_slice(cfg, lines[k])[1] <= key_slice(cfg, lines[k])[2]
                          /\ key_slice(cfg, lines[k])[2] <= byte_len(lines[k])
                          /\ key_slice(cfg, lines[k])[1] \in CharBoundaries(lines[k])
                          /\ key_slice(cfg, lines[k])[2] \in CharBoundaries(lines[k])
    /\ (pc = "processed" /\ lines = <<>>) =>
           /\ processed = <<>>
           /\ cfg.right_align =>
                  (padding_info # None /\ padding_info[1].max_value = 0)

\* the empty input, right-aligned
C12_Witness ==
    /\ pc = "processed"
    /\ lines = <<>>
    /\ cfg.right_align
    /\ processed = <<>>
    /\ padding_info # None
    /\ padding_info[1].max_value = 0

\* C13: whatever the order in which the workers extract the keys and in
\* which the partial maxima are merged, the extracted sequence, the
\* PaddingInfo and the sorted sequence are those of the sequential run
C13_ParallelAsSequential ==
    /\ pc \in {"par_reduce", "par_sort"} =>
           processed = extract_lines(cfg, lines)
    /\ pc \in {"par_sort", "processed"} =>
           padding_info =
               IF cfg.right_align
               THEN Some(compute_padding_info(cfg, extract_lines(cfg, lines)))
               ELSE None
    /\ pc = "processed" =>
           sort_processed_lines(cfg, extract_lines(cfg, lines)) = {processed}

\* "b 1", "a 1", "b 2": three partial results merged into one
C13_Witness ==
    /\ pc = "par_reduce"
    /\ lines = ExampleStable
    /\ Len(processed) = 3
    /\ Len(partials) = 1

\* C14: on records of pairwise distinct index the comparator of the sort is
\* a strict total order, with reverse on or off: Equal only for a record and
\* itself, compare(x, y) the inverse of compare(y, x), and transitive; the
\* key comparator returns Equal exactly for two keys that are the same string
C14_StrictTotalOrder ==
    pc = "ordered" =>
        /\ \A i, j \in 1..Len(processed) :
               /\ (verdicts.rec[i][j] = "Equal") <=> (i = j)
               /\ verdicts.rec[i][j] = Inverse(verdicts.rec[j][i])
               /\ (verdicts.key[i][j] = "Equal")
                      <=> (processed[i].key = processed[j].key)
        /\ \A i, j, k \in 1..Len(processed) :
               (verdicts.rec[i][j] = "Less" /\ verdicts.rec[j][k] = "Less")
                   => verdicts.rec[i][k] = "Less"

\* two records of the same key under reverse: the index decides
C14_Witness ==
    /\ pc = "ordered"
    /\ cfg.reverse
    /\ processed[1].key = processed[2].key
    /\ processed[1].index < processed[2].index
    /\ verdicts.key[1][2] = "Equal"
    /\ verdicts.rec[1][2] = "Less"
    /\ verdicts.rec[2][3] = "Less"
    /\ verdicts.rec[1][3] = "Less"

\* C15: with normalize off the entry point of src/src/main.rs and the
\* library pipeline followed by write_output write the same lines, with the
\* same padding, in the same order
C15_SameOutput ==
    (pc = "written" /\ inlined.done) => inlined.lines = output

====
